---- MODULE Spec2Model ----
(***************************************************************************)
(* CineMatch: the offline build of the content-based similarity model     *)
(* (scripts/generate_model.py), the packaging of its artifacts            *)
(* (scripts/prepare_for_github.py) and the serving script (app.py) that   *)
(* loads the artifacts and answers recommend(title).                      *)
(*                                                                         *)
(* Texts are sequences of words.  Real-valued quantities are fixed-point   *)
(* integers: IDF values carry IdfScale, vector components and similarity   *)
(* scores carry SimScale (SimScale stands for 1.0).  Corpus rows are       *)
(* numbered from 1 (pandas position p is row p + 1).                       *)
(***************************************************************************)
EXTENDS Integers, Sequences, FiniteSets, TLC

\* ------------------------------------------------------------------ bounds
\* Largest corpus handed to the query engine.
MaxMovies == 7
\* Largest raw table (rows per CSV) handed to the build.
MaxRawRows == 2
\* Runs of generate_model in one behaviour (after the earlier run whose
\* artifacts may be on disk at the start).
MaxRuns == 1

\* ------------------------------------------------------ program constants
\* distances[1:6]: the slice starts after the first entry and stops at 6.
SliceFrom == 1
SliceTo == 6
\* The number of recommendations asked for (K, five display columns).
TopK == 5

\* ------------------------------------------------- fixed-point arithmetic
\* The fixed-point unit of the IDF values (LnTable is in this unit).
IdfScale == 100
\* The fixed-point unit of vector components and similarity scores.
SimScale == 1000
\* |score - SimScale| <= Tolerance reads "score is 1.0 within tolerance":
\* one percent, the rounding of the fixed-point arithmetic.
Tolerance == SimScale \div 100

\* 100 * ln(k), rounded, for k = 1 .. 12.
LnTable == <<0, 69, 110, 139, 161, 179, 195, 208, 220, 230, 240, 248>>

Min(a, b) == IF a <= b THEN a ELSE b

RECURSIVE IsqrtBisect(_, _, _)
\* Largest r in lo .. hi with r * r <= n.
IsqrtBisect(n, lo, hi) ==
    IF lo >= hi THEN lo
    ELSE LET mid == (lo + hi + 1) \div 2
         IN  IF mid * mid <= n THEN IsqrtBisect(n, mid, hi)
                               ELSE IsqrtBisect(n, lo, mid - 1)

\* Euclidean norm of a vector whose squared length is n (rounded down).
Isqrt(n) == IsqrtBisect(n, 0, 4096)

RECURSIVE Concat(_)
\* ' '.join(parts): the words of the parts, in order.
Concat(parts) ==
    IF parts = <<>> THEN <<>> ELSE Head(parts) \o Concat(Tail(parts))

\* --------------------------------------------------------------- raw data
\* A CSV cell: a missing value, a free text, a text that parses to a list of
\* records, or a text that does not.
NaN == [kind |-> "nan"]
Malformed == [kind |-> "malformed"]
Str(words) == [kind |-> "str", val |-> words]
List(records) == [kind |-> "list", val |-> records]

\* English stop words among the words of the model.
StopWords == {"the"}

\* str.lower() of one word.
Lower(w) == IF w = "War" THEN "war" ELSE w

\* ------------------------------------------- scripts/generate_model.py

\* pd.read_csv(...).merge(credits_df, on='title'): inner join on the title, in
\* the order of the left table, each left row paired with every right row
\* of the same title in the right table's order; then fillna.
\* Series.fillna(value)
FillNa(cell, value) == IF cell.kind = "nan" THEN value ELSE cell

RECURSIVE MergeRow(_, _)
MergeRow(m, credits) ==
    IF credits = <<>> THEN <<>>
    ELSE LET c == Head(credits)
         IN  (IF c.title = m.title
              THEN << [movie_id |-> c.movie_id, title |-> m.title,
                       overview |-> FillNa(m.overview, Str(<<>>)),
                       genres   |-> FillNa(m.genres, List(<<>>)),
                       keywords |-> FillNa(m.keywords, List(<<>>)),
                       cast     |-> FillNa(c.cast, List(<<>>)),
                       crew     |-> FillNa(c.crew, List(<<>>))] >>
              ELSE <<>>) \o MergeRow(m, Tail(credits))

RECURSIVE Merge(_, _)
Merge(movies_df, credits_df) ==
    IF movies_df = <<>> THEN <<>>
    ELSE MergeRow(Head(movies_df), credits_df) \o Merge(Tail(movies_df), credits_df)

load_and_clean_data(data) == Merge(data.movies_df, data.credits_df)

\* A parsed list of records; anything else fails ast.literal_eval or the
\* iteration over it.
IsList(text) == text.kind = "list"

extract_features(text) ==
    IF ~IsList(text) THEN <<>>
    ELSE LET features == text.val
         IN  IF \E k \in 1..Len(features) : "name" \notin DOMAIN features[k]
             THEN <<>>
             ELSE Concat([k \in 1..Len(features) |-> features[k].name])

\* The scan keeping the last Director of the list in place of returning at
\* the first one.
extract_director_last(crew_text) ==
    IF ~IsList(crew_text) THEN <<>>
    ELSE LET crew == crew_text.val
             directors == {k \in 1..Len(crew) :
                              "job" \in DOMAIN crew[k] /\ crew[k].job = "Director"}
         IN  IF \E k \in 1..Len(crew) : "job" \notin DOMAIN crew[k] THEN <<>>
             ELSE IF directors = {} THEN <<>>
             ELSE LET k == CHOOSE d \in directors : \A t \in directors : t <= d
                  IN  IF "name" \notin DOMAIN crew[k] THEN <<>> ELSE crew[k].name

extract_director(crew_text) ==
    IF ~IsList(crew_text) THEN <<>>
    ELSE LET crew == crew_text.val
             \* where the loop ends: at the first Director, or at the first
             \* record on which person['job'] raises
             stops == {k \in 1..Len(crew) :
                          \/ "job" \notin DOMAIN crew[k]
                          \/ crew[k].job = "Director"}
         IN  IF stops = {} THEN <<>>
             ELSE LET k == CHOOSE s \in stops : \A t \in stops : s <= t
                  IN  IF "job" \notin DOMAIN crew[k] THEN <<>>
                      ELSE IF "name" \notin DOMAIN crew[k] THEN <<>>
                      ELSE crew[k].name

create_soup(x) ==
    Concat(<<x.overview, x.genres, x.keywords, x.cast, x.director>>)

\* The feature columns of one merged row (generate_model, lines 75-81).
Featured(r) ==
    LET x == [overview |-> IF r.overview.kind = "str" THEN r.overview.val ELSE <<>>,
              genres   |-> extract_features(r.genres),
              keywords |-> extract_features(r.keywords),
              cast     |-> extract_features(r.cast),
              director |-> extract_director(r.crew)]
    IN  [movie_id |-> r.movie_id, title |-> r.title, soup |-> create_soup(x)]

\* TfidfVectorizer(stop_words='english'): lowercase, split into words, drop
\* the stop words.  (The words of the model have two letters or more; the
\* vectorizer drops one-letter words as well.)
RECURSIVE Tokenize(_)
Tokenize(soup) ==
    IF soup = <<>> THEN <<>>
    ELSE (IF Lower(Head(soup)) \in StopWords THEN <<>> ELSE <<Lower(Head(soup))>>)
         \o Tokenize(Tail(soup))

\* The words a fitted vocabulary can hold, in lexicographic order.
Lexicon == <<"love", "peace", "war">>

\* vocabulary_: the words of the documents, sorted; column c stands for
\* word Vocabulary(docs)[c].
Vocabulary(docs) ==
    SelectSeq(Lexicon, LAMBDA w : \E i \in 1..Len(docs) : \E k \in 1..Len(docs[i]) :
                                      docs[i][k] = w)

Count(doc, t) == Cardinality({k \in 1..Len(doc) : doc[k] = t})

\* idf(t) = ln((1 + n) / (1 + df(t))) + 1
Idf(n, df) == LnTable[1 + n] - LnTable[1 + df] + IdfScale

RECURSIVE SumSquares(_)
SumSquares(row) ==
    IF row = <<>> THEN 0 ELSE Head(row) * Head(row) + SumSquares(Tail(row))

RECURSIVE Scaled(_, _, _)
\* row * unit / norm, component by component.
Scaled(row, unit, norm) ==
    IF row = <<>> THEN <<>>
    ELSE <<(Head(row) * unit) \div norm>> \o Scaled(Tail(row), unit, norm)

RECURSIVE Sum(_)
Sum(row) == IF row = <<>> THEN 0 ELSE Head(row) + Sum(Tail(row))

\* Division by the sum of the components (norm='l1') instead.
NormalizeL1(row) ==
    LET norm == Sum(row)
    IN  IF norm = 0 THEN row ELSE Scaled(row, SimScale, norm)

\* sklearn.preprocessing.normalize(norm='l2'): a zero row stays zero.
Normalize(row) ==
    LET norm == Isqrt(SumSquares(row))
    IN  IF norm = 0 THEN row ELSE Scaled(row, SimScale, norm)

RECURSIVE TfidfRow(_, _, _, _)
\* The weights tf * idf of one document, for columns c .. Len(V).
TfidfRow(docs, V, doc, c) ==
    IF c > Len(V) THEN <<>>
    ELSE LET df == Cardinality({i \in 1..Len(docs) : Count(docs[i], V[c]) > 0})
         IN  <<Count(doc, V[c]) * Idf(Len(docs), df)>> \o TfidfRow(docs, V, doc, c + 1)

RECURSIVE TfidfRows(_, _, _)
TfidfRows(docs, V, i) ==
    IF i > Len(docs) THEN <<>>
    ELSE <<Normalize(TfidfRow(docs, V, docs[i], 1))>> \o TfidfRows(docs, V, i + 1)

\* tfidf.fit_transform(soups): one L2-normalised row per document.
TfidfMatrix(docs) == TfidfRows(docs, Vocabulary(docs), 1)

RECURSIVE Dot(_, _)
Dot(u, v) ==
    IF u = <<>> THEN 0 ELSE Head(u) * Head(v) + Dot(Tail(u), Tail(v))

RECURSIVE NormalizeRows(_)
NormalizeRows(X) ==
    IF X = <<>> THEN <<>> ELSE <<Normalize(Head(X))>> \o NormalizeRows(Tail(X))

RECURSIVE DotRow(_, _, _)
DotRow(Xn, i, j) ==
    IF j > Len(Xn) THEN <<>>
    ELSE <<Dot(Xn[i], Xn[j]) \div SimScale>> \o DotRow(Xn, i, j + 1)

RECURSIVE DotRows(_, _)
DotRows(Xn, i) ==
    IF i > Len(Xn) THEN <<>> ELSE <<DotRow(Xn, i, 1)>> \o DotRows(Xn, i + 1)

\* cosine_similarity(X, X): normalise the rows, then all dot products.
CosineSimilarity(X) == DotRows(NormalizeRows(X), 1)

RECURSIVE FeaturedRows(_)
FeaturedRows(merged) ==
    IF merged = <<>> THEN <<>>
    ELSE <<Featured(Head(merged))>> \o FeaturedRows(Tail(merged))

RECURSIVE Documents(_)
Documents(movies) ==
    IF movies = <<>> THEN <<>>
    ELSE <<Tokenize(Head(movies).soup)>> \o Documents(Tail(movies))

\* generate_model up to the similarity matrix (lines 71-93).  The vectorizer
\* raises ValueError on an empty vocabulary.
generate_model(data) ==
    LET movies == FeaturedRows(load_and_clean_data(data))
        docs   == Documents(movies)
    IN  IF Vocabulary(docs) = <<>>
        THEN [ok |-> FALSE, movies |-> <<>>, similarity |-> <<>>]
        ELSE [ok |-> TRUE, movies |-> movies,
              similarity |-> CosineSimilarity(TfidfMatrix(docs))]

\* ------------------------------------------------------------------ app.py

\* How the metadata provider answers during one query: every lookup returns
\* a poster_path ("up"), lookups of even movie_ids return a document without
\* poster_path ("partial"), or the request/JSON decoding raises ("down").
TmdbModes == {"up", "partial", "down"}

TmdbResponse(tmdb, movie_id) ==
    CASE tmdb = "up" -> "poster_path"
      [] tmdb = "partial" ->
            IF movie_id % 2 = 0 THEN "no_poster_path" ELSE "poster_path"
      [] OTHER -> "error"

\* fetch_poster: the URL when the document has a poster_path, else None; an
\* exception of requests.get(url).json() propagates.
fetch_poster(tmdb, movie_id) ==
    LET data == TmdbResponse(tmdb, movie_id)
    IN  IF data = "error" THEN [raised |-> TRUE, value |-> "None"]
        ELSE [raised |-> FALSE,
              value  |-> IF data = "poster_path" THEN "url" ELSE "None"]

\* The same step with equal scores in reverse index order, as an ascending
\* sort that is reversed afterwards leaves them.
InsertDescTiesReversed(s, e) ==
    LET p == Cardinality({k \in 1..Len(s) : s[k][2] > e[2]})
    IN  SubSeq(s, 1, p) \o <<e>> \o SubSeq(s, p + 1, Len(s))

\* One step of the stable descending sort: e goes behind every entry whose
\* score is at least its own.
InsertDesc(s, e) ==
    LET p == Cardinality({k \in 1..Len(s) : s[k][2] >= e[2]})
    IN  SubSeq(s, 1, p) \o <<e>> \o SubSeq(s, p + 1, Len(s))

RECURSIVE SortedFrom(_, _, _)
SortedFrom(items, k, acc) ==
    IF k > Len(items) THEN acc
    ELSE SortedFrom(items, k + 1, InsertDesc(acc, items[k]))

\* sorted(enumerate(row), key=lambda x: x[1], reverse=True): entries <<j, score>>
\* by descending score; the sort is stable, so equal scores keep index order.
SortedDistances(row) ==
    SortedFrom([j \in 1..Len(row) |-> <<j, row[j]>>], 1, <<>>)

\* The slice stopping one entry early (distances[1:5]).
SliceShort(distances) ==
    SubSeq(distances, SliceFrom + 1, Min(SliceTo - 1, Len(distances)))

\* movies[movies['title'] == movie].index, with row 1 standing in when no
\* row matches.
MatchesOrFirst(movies, movie) ==
    LET found == {i \in 1..Len(movies) : movies[i].title = movie}
    IN  IF found = {} /\ movies # <<>> THEN {1} ELSE found

\* movies[movies['title'] == movie].index, keeping only the last matching row
\* (the title resolved by .index[-1]).
MatchesLast(movies, movie) ==
    LET found == {i \in 1..Len(movies) : movies[i].title = movie}
    IN  {i \in found : \A k \in found : k <= i}

\* movies[movies['title'] == movie].index: the rows whose title equals movie.
Matches(movies, movie) == {i \in 1..Len(movies) : movies[i].title = movie}

\* distances[1:6]
Slice(distances) ==
    SubSeq(distances, SliceFrom + 1, Min(SliceTo, Len(distances)))

\* recommend(movie) over the loaded movies and similarity.  status "ok" with
\* the returned list, or the exception that ends the call.  index and rows
\* record the row the title resolved to and the rows picked.
recommend(movies, similarity, tmdb, movie) ==
    LET matches == Matches(movies, movie)
        failed(exc) == [status |-> exc, list |-> <<>>, index |-> 0, rows |-> <<>>]
    IN  IF matches = {} THEN failed("IndexError")
        ELSE
        LET index == CHOOSE i \in matches : \A k \in matches : i <= k
        IN  IF index > Len(similarity) THEN failed("IndexError")
            ELSE
            LET picked == Slice(SortedDistances(similarity[index]))
                rows   == [k \in 1..Len(picked) |-> picked[k][1]]
                \* the entry on which the list comprehension raises
                bad == {k \in 1..Len(rows) :
                           \/ rows[k] > Len(movies)
                           \/ fetch_poster(tmdb, movies[rows[k]].movie_id).raised}
            IN  IF bad # {}
                THEN LET k == CHOOSE b \in bad : \A c \in bad : b <= c
                     IN  failed(IF rows[k] > Len(movies) THEN "IndexError"
                                                         ELSE "RequestError")
                ELSE [status |-> "ok",
                      list   |-> [k \in 1..Len(rows) |->
                                    [title  |-> movies[rows[k]].title,
                                     poster |-> fetch_poster(tmdb, movies[rows[k]].movie_id).value,
                                     id     |-> movies[rows[k]].movie_id]],
                      index  |-> index,
                      rows   |-> rows]

\* --------------------------------------------------- artifacts on disk
PklFiles == {"similarity.pkl", "movies.pkl", "movies_dict.pkl"}
GzOf == [f \in PklFiles |->
            CASE f = "similarity.pkl" -> "similarity.pkl.gz"
              [] f = "movies.pkl" -> "movies.pkl.gz"
              [] OTHER -> "movies_dict.pkl.gz"]
GzFiles == {GzOf[f] : f \in PklFiles}
Files == PklFiles \cup GzFiles

\* What a file holds: nothing (no such file), a complete pickle of obj
\* written by run `run`, the stump a failed dump leaves behind, or the gzip
\* of another content.
Absent == [kind |-> "absent", run |-> 0]
Pickle(run, obj) == [kind |-> "pickle", run |-> run, obj |-> obj]
Truncated(run) == [kind |-> "truncated", run |-> run]
Gzip(content) == [kind |-> "gzip", run |-> content.run, of |-> content]

EmptyDisk == [f \in Files |-> Absent]

\* movies.set_index('title')['movie_id'].to_dict(): of several rows with one
\* title the last one stays.
MoviesDict(movies) ==
    [t \in {movies[i].title : i \in 1..Len(movies)} |->
        LET rows == {i \in 1..Len(movies) : movies[i].title = t}
        IN  movies[CHOOSE i \in rows : \A k \in rows : k <= i].movie_id]

\* The objects dumped with the movie table in reverse row order
\* (movies.iloc[::-1] in place of movies).
ObjectForReversed(f, model) ==
    CASE f = "similarity.pkl" -> model.similarity
      [] f = "movies.pkl" ->
           [i \in 1..Len(model.movies) |-> model.movies[Len(model.movies) + 1 - i]]
      [] OTHER -> MoviesDict(model.movies)

\* The object generate_model dumps into file f.
ObjectFor(f, model) ==
    CASE f = "similarity.pkl" -> model.similarity
      [] f = "movies.pkl" -> model.movies
      [] OTHER -> MoviesDict(model.movies)

\* The artifacts a complete run leaves in an empty directory.
CompleteArtifacts(run, model) ==
    [f \in Files |-> IF f \in PklFiles THEN Pickle(run, ObjectFor(f, model))
                                       ELSE Absent]

\* ------------------------------------------------------ app.py: load_data

\* pickle.load(f) on an opened file: the object, or an exception on a stump.
\* gzip.open(path) / open(path) on a name that does not exist raises
\* FileNotFoundError.
ReadPickle(content) ==
    CASE content.kind = "absent" -> [exc |-> "FileNotFoundError"]
      [] content.kind = "pickle" -> [exc |-> "", obj |-> content.obj]
      [] content.kind = "gzip" /\ content.of.kind = "pickle" ->
            [exc |-> "", obj |-> content.of.obj]
      [] OTHER -> [exc |-> "UnpicklingError"]

\* The body of load_data: both compressed files, and on FileNotFoundError
\* from either of them both uncompressed files; any other exception, and
\* any exception of the fallback, leaves the function.
load_data(d) ==
    LET gm == ReadPickle(d["movies.pkl.gz"])
        gs == ReadPickle(d["similarity.pkl.gz"])
        pm == ReadPickle(d["movies.pkl"])
        ps == ReadPickle(d["similarity.pkl"])
        raised(e) == [ok |-> FALSE, exc |-> e, movies |-> <<>>, similarity |-> <<>>]
        loaded(m, sim) == [ok |-> TRUE, exc |-> "", movies |-> m.obj,
                           similarity |-> sim.obj]
    IN  IF gm.exc = "" /\ gs.exc = "" THEN loaded(gm, gs)
        ELSE IF gm.exc = "FileNotFoundError"
                 \/ (gm.exc = "" /\ gs.exc = "FileNotFoundError")
        THEN IF pm.exc # "" THEN raised(pm.exc)
             ELSE IF ps.exc # "" THEN raised(ps.exc)
             ELSE loaded(pm, ps)
        ELSE raised(IF gm.exc # "" THEN gm.exc ELSE gs.exc)

\* load_data without memoisation: every call reads the disk.
CacheDataNoMemo(c, d) == [hit |-> FALSE, value |-> load_data(d)]

\* @st.cache_data: the first call that returns stores its value; later calls
\* return the stored value without running the body.  A call that raises
\* stores nothing.
CacheData(c, d) ==
    IF c.loaded
    THEN [hit |-> TRUE,
          value |-> [ok |-> TRUE, exc |-> "", movies |-> c.movies,
                     similarity |-> c.similarity]]
    ELSE [hit |-> FALSE, value |-> load_data(d)]

\* ------------------------------------------------------------------ state
VARIABLES
    csv,       \* data/: the two raw tables, when present
    disk,      \* artifacts/: file name -> content
    build,     \* the run of generate_model in progress
    cache,     \* the st.cache_data entry of load_data
    loads,     \* how many times load_data read the artifacts from disk
    sess,      \* the browser sessions of the serving process
    query,     \* the arguments of the last direct call of recommend
    result     \* what that call returned or raised

vars == <<csv, disk, build, cache, loads, sess, query, result>>

Sessions == {"s1", "s2"}
\* st.session_state of a session, and how its last script run ended.
NewSession == [status |-> "new", recommendations |-> <<>>]

NoResult == [status |-> "none", list |-> <<>>, index |-> 0, rows |-> <<>>]
NoQuery == [movie |-> "", tmdb |-> "up"]

\* ---------------------------------------------------- the query engine
TitleSeq == <<"T1", "T2", "T3", "T4", "T5", "T6", "T7", "T8", "T9", "T10">>
AbsentTitle == "Nonexistent Title Xyz123"

\* The overviews of the corpora handed to the query engine: no word at all,
\* one word, two words.
QueryOverviews == {<<>>, <<"war">>, <<"war", "love">>}

\* Raw tables of n films with distinct titles whose only text is the overview.
QueryData(ov) ==
    [movies_df  |-> [i \in 1..Len(ov) |->
                        [title |-> TitleSeq[i], overview |-> Str(ov[i]),
                         genres |-> NaN, keywords |-> NaN]],
     credits_df |-> [i \in 1..Len(ov) |->
                        [movie_id |-> 100 + i, title |-> TitleSeq[i],
                         cast |-> NaN, crew |-> NaN]]]

NoData == [present |-> FALSE, movies_df |-> <<>>, credits_df |-> <<>>]
Data(d) == [present |-> TRUE, movies_df |-> d.movies_df, credits_df |-> d.credits_df]
NoModel == [ok |-> FALSE, movies |-> <<>>, similarity |-> <<>>]
NoBuild == [pc |-> "idle", run |-> 0, model |-> NoModel]
NoCache == [loaded |-> FALSE, movies |-> <<>>, similarity |-> <<>>]

\* A serving process that has loaded the model built from some corpus.
InitQuery ==
    \E n \in 1..MaxMovies : \E ov \in [1..n -> QueryOverviews] :
        \E m \in {generate_model(QueryData(ov))} :
            /\ m.ok
            /\ cache = [loaded |-> TRUE, movies |-> m.movies,
                        similarity |-> m.similarity]
            /\ csv = NoData
            /\ disk = EmptyDisk
            /\ build = NoBuild
            /\ loads = 1
            /\ sess = [s \in Sessions |-> NewSession]
            /\ query = NoQuery
            /\ result = NoResult

\* One call recommend(movie) with the provider in state tmdb.  The call only
\* reads the loaded model, so one call per behaviour shows every outcome.
Recommend(movie, tmdb) ==
    /\ cache.loaded
    /\ result.status = "none"
    /\ query' = [movie |-> movie, tmdb |-> tmdb]
    /\ result' = recommend(cache.movies, cache.similarity, tmdb, movie)
    /\ UNCHANGED <<csv, disk, build, cache, loads, sess>>

NextQuery ==
    \E movie \in {TitleSeq[i] : i \in 1..Len(cache.movies)} \cup {AbsentTitle} :
        \E tmdb \in TmdbModes : Recommend(movie, tmdb)

SpecQuery == InitQuery /\ [][NextQuery]_vars

\* ------------------------------------------ corpora with repeated titles
\* The largest raw movie table of the corpora with repeated titles.
MaxDupMovies == 3
\* The titles the films of these corpora share.
SharedTitles == {"T1", "T2"}
\* The title "T1" typed in lower case.
LowerCaseTitle == "t1"

\* Raw tables of films titled ti[i] with overview ov[i]; the credits table
\* holds one row per title, so every film of a title joins with it.
DupData(ti, ov) ==
    [movies_df  |-> [i \in 1..Len(ti) |->
                        [title |-> ti[i], overview |-> Str(ov[i]),
                         genres |-> NaN, keywords |-> NaN]],
     credits_df |-> <<[movie_id |-> 101, title |-> "T1", cast |-> NaN, crew |-> NaN],
                      [movie_id |-> 102, title |-> "T2", cast |-> NaN, crew |-> NaN]>>]

\* A serving process that has loaded the model built from such a corpus.
InitTitle ==
    \E n \in 1..MaxDupMovies :
        \E ti \in [1..n -> SharedTitles] : \E ov \in [1..n -> QueryOverviews] :
            \E m \in {generate_model(DupData(ti, ov))} :
                /\ m.ok
                /\ cache = [loaded |-> TRUE, movies |-> m.movies,
                            similarity |-> m.similarity]
                /\ csv = NoData
                /\ disk = EmptyDisk
                /\ build = NoBuild
                /\ loads = 1
                /\ sess = [s \in Sessions |-> NewSession]
                /\ query = NoQuery
                /\ result = NoResult

\* recommend called with a shared title or with its lower-case spelling.
NextTitle ==
    \E movie \in SharedTitles \cup {LowerCaseTitle} :
        \E tmdb \in TmdbModes : Recommend(movie, tmdb)

SpecTitle == InitTitle /\ [][NextTitle]_vars

\* ------------------------------------------- the build and its artifacts

\* The corpora of the life-cycle model: two films, and three films of which
\* one has no text.
LifeInputs ==
    {QueryData(<< <<"war">>, <<"war", "love">> >>),
     QueryData(<< <<"war">>, <<>>, <<"war", "love">> >>)}

\* What download_data can leave in data/: nothing, or one of the corpora.
Downloads == {NoData} \cup {Data(d) : d \in LifeInputs}

\* __main__ up to the first dump: download_data when the CSV files are
\* missing, then generate_model through line 97.  A missing file or an
\* empty vocabulary raises, and __main__ exits with status 1.
StartBuild(got) ==
    /\ build.pc = "idle"
    /\ build.run < MaxRuns
    /\ LET data == IF csv.present THEN csv ELSE got
       IN  /\ csv' = data
           /\ \E m \in {IF data.present THEN generate_model(data) ELSE NoModel} :
                build' = [pc    |-> IF m.ok THEN "save_similarity" ELSE "failed",
                          run   |-> build.run + 1,
                          model |-> IF m.ok THEN m ELSE NoModel]
    /\ UNCHANGED <<disk, cache, loads, sess, query, result>>

DumpOutcomes == {"ok", "open_raises", "dump_raises"}

\* with open(f, 'wb') as h: pickle.dump(obj, h).  open creates or empties
\* the file; an exception (on open, or during the dump) ends the run through
\* the handler of __main__, which removes nothing.
Dump(f, outcome, next) ==
    /\ disk' = CASE outcome = "ok" ->
                      [disk EXCEPT ![f] = Pickle(build.run, ObjectFor(f, build.model))]
                 [] outcome = "dump_raises" ->
                      [disk EXCEPT ![f] = Truncated(build.run)]
                 [] OTHER -> disk
    /\ build' = IF outcome = "ok"
                THEN [build EXCEPT !.pc = next]
                ELSE [pc |-> "failed", run |-> build.run, model |-> NoModel]
    /\ UNCHANGED <<csv, cache, loads, sess, query, result>>

SaveSimilarity(outcome) ==
    /\ build.pc = "save_similarity"
    /\ Dump("similarity.pkl", outcome, "save_movies")

SaveMovies(outcome) ==
    /\ build.pc = "save_movies"
    /\ Dump("movies.pkl", outcome, "save_dict")

SaveDict(outcome) ==
    /\ build.pc = "save_dict"
    /\ Dump("movies_dict.pkl", outcome, "done")

\* The process of generate_model.py ends (normally, or by sys.exit(1)).
ExitBuild ==
    /\ build.pc \in {"done", "failed"}
    /\ build' = [pc |-> "idle", run |-> build.run, model |-> NoModel]
    /\ UNCHANGED <<csv, disk, cache, loads, sess, query, result>>

\* compress_pickle_file: the gzip of the bytes of the input, beside it.
compress_pickle_file(d, f) == [d EXCEPT ![GzOf[f]] = Gzip(d[f])]

RECURSIVE CompressAll(_, _)
CompressAll(d, fs) ==
    IF fs = {} THEN d
    ELSE LET f == CHOOSE x \in fs : TRUE
         IN  CompressAll(compress_pickle_file(d, f), fs \ {f})

\* main of prepare_for_github.py: every artifacts/*.pkl larger than 10 MB is
\* compressed; big is the set of those files.
Prepare(big) ==
    /\ big # {}
    /\ \A f \in big : disk[f].kind # "absent"
    /\ disk' = CompressAll(disk, big)
    /\ UNCHANGED <<csv, build, cache, loads, sess, query, result>>

\* ------------------------------------------------------ the serving script

\* One run of app.py for session s: load_data() at line 171, then main(),
\* in which the user has pressed "Get Recommendations" for the title click
\* of the select box, or (click = "") has not.  An exception ends the script
\* run and leaves st.session_state as it was.  The details panel of main()
\* reads the provider only and is left out.
ScriptRun(s, click, tmdb) ==
    LET got == CacheData(cache, disk)
        m   == got.value
    IN  /\ click = "" \/ (m.ok /\ click \in {m.movies[i].title : i \in 1..Len(m.movies)})
        /\ IF ~m.ok
           THEN /\ sess' = [sess EXCEPT ![s].status = "load_error"]
                /\ UNCHANGED <<cache, loads>>
           ELSE /\ cache' = [loaded |-> TRUE, movies |-> m.movies,
                             similarity |-> m.similarity]
                /\ loads' = IF got.hit THEN loads ELSE loads + 1
                /\ IF click = ""
                   THEN sess' = [sess EXCEPT ![s].status = "ok"]
                   ELSE \E r \in {recommend(m.movies, m.similarity, tmdb, click)} :
                          sess' = [sess EXCEPT ![s] =
                                     IF r.status = "ok"
                                     THEN [status |-> "ok", recommendations |-> r.list]
                                     ELSE [status |-> "query_error",
                                           recommendations |-> sess[s].recommendations]]
        /\ UNCHANGED <<csv, disk, build, query, result>>

\* The life cycle: artifacts of an earlier complete run may be on disk.
Init ==
    /\ csv \in Downloads
    /\ disk \in {EmptyDisk}
                 \cup {CompleteArtifacts(0, generate_model(d)) : d \in LifeInputs}
    /\ build = NoBuild
    /\ cache = NoCache
    /\ loads = 0
    /\ sess = [s \in Sessions |-> NewSession]
    /\ query = NoQuery
    /\ result = NoResult

\* What the user can have chosen in the select box when the script runs.
Clicks ==
    {""} \cup UNION {{d.movies_df[i].title : i \in 1..Len(d.movies_df)} : d \in LifeInputs}

Next ==
    \/ \E got \in Downloads : StartBuild(got)
    \/ \E o \in DumpOutcomes : SaveSimilarity(o)
    \/ \E o \in DumpOutcomes : SaveMovies(o)
    \/ \E o \in DumpOutcomes : SaveDict(o)
    \/ ExitBuild
    \/ \E s \in Sessions : \E click \in Clicks : \E tmdb \in TmdbModes :
          ScriptRun(s, click, tmdb)

Spec == Init /\ [][Next]_vars

\* ---------------------------------------------------- the deployed artifacts
\* The form of file f a complete run and compress_pickle_file produce.
ArtifactFile(f, model) ==
    IF f \in PklFiles THEN Pickle(0, ObjectFor(f, model))
    ELSE Gzip(Pickle(0, ObjectFor(CHOOSE g \in PklFiles : GzOf[g] = f, model)))

\* A serving process started on a directory that holds any selection of the
\* compressed and uncompressed artifacts of one build.
InitLoad ==
    /\ \E d \in LifeInputs : \E m \in {generate_model(d)} :
         \E present \in SUBSET Files :
            disk = [f \in Files |-> IF f \in present THEN ArtifactFile(f, m)
                                                     ELSE Absent]
    /\ csv = NoData
    /\ build = NoBuild
    /\ cache = NoCache
    /\ loads = 0
    /\ sess = [s \in Sessions |-> NewSession]
    /\ query = NoQuery
    /\ result = NoResult

NextLoad ==
    \/ \E big \in SUBSET PklFiles : Prepare(big)
    \/ \E s \in Sessions : \E click \in Clicks : \E tmdb \in TmdbModes :
          ScriptRun(s, click, tmdb)

SpecLoad == InitLoad /\ [][NextLoad]_vars

\* ---------------------------------------------- scripts/download_models.py
\* The models whose compressed artifacts the hosting service may serve.
HostedModels == {generate_model(d) : d \in LifeInputs}

\* model_files in the order of the loop, by the name of the output file.
ModelFiles == <<"similarity.pkl", "movies.pkl", "movies_dict.pkl">>

\* How the try block ends for one file: all of it runs; urlretrieve raises
\* before it creates the local file; urlretrieve raises on a short read,
\* after writing a part of the archive; urlretrieve returns but what it
\* saved is no complete gzip stream, so f_in.read() raises; f_out.write
\* raises.
DownloadOutcomes ==
    {"ok", "no_response", "short_download", "bad_archive", "write_raises"}

\* One iteration of the loop for output file f.  open(output_path, 'wb')
\* creates the output before f_in.read() runs, and the except clause
\* removes nothing.
download_one(d, f, outcome, model) ==
    IF d[f].kind # "absent" THEN d
    ELSE CASE outcome = "ok" ->
                [d EXCEPT ![f] = Pickle(0, ObjectFor(f, model)),
                          ![GzOf[f]] = Absent]
           [] outcome = "short_download" ->
                [d EXCEPT ![GzOf[f]] = Truncated(0)]
           [] outcome = "bad_archive" ->
                [d EXCEPT ![GzOf[f]] = Truncated(0), ![f] = Truncated(0)]
           [] outcome = "write_raises" ->
                [d EXCEPT ![GzOf[f]] = Gzip(Pickle(0, ObjectFor(f, model))),
                          ![f] = Truncated(0)]
           [] OTHER -> d

RECURSIVE download_and_decompress(_, _, _, _)
download_and_decompress(d, k, outcomes, model) ==
    IF k > Len(ModelFiles) THEN d
    ELSE download_and_decompress(
             download_one(d, ModelFiles[k], outcomes[ModelFiles[k]], model),
             k + 1, outcomes, model)

\* One run of download_models.py.
DownloadRun(outcomes, model) ==
    /\ disk' = download_and_decompress(disk, 1, outcomes, model)
    /\ UNCHANGED <<csv, build, cache, loads, sess, query, result>>

\* A fresh checkout: no artifacts directory yet.
InitDownload ==
    /\ disk = EmptyDisk
    /\ csv = NoData
    /\ build = NoBuild
    /\ cache = NoCache
    /\ loads = 0
    /\ sess = [s \in Sessions |-> NewSession]
    /\ query = NoQuery
    /\ result = NoResult

NextDownload ==
    \E outcomes \in [PklFiles -> DownloadOutcomes] : \E model \in HostedModels :
        DownloadRun(outcomes, model)

SpecDownload == InitDownload /\ [][NextDownload]_vars

\* ------------------------------------------------------- one run of the build
BuildTitles == {"T1", "T2"}

\* Rows of tmdb_5000_movies.csv: nothing but the title; an overview with a
\* stop word and a capitalised word plus one genre; a stop word only and a
\* genres cell that does not parse.
RawMovieRows ==
    {[title |-> t, overview |-> c.overview, genres |-> c.genres, keywords |-> NaN] :
        t \in BuildTitles,
        c \in {[overview |-> NaN, genres |-> NaN],
               [overview |-> Str(<<"the", "War">>),
                genres   |-> List(<<[name |-> <<"love">>]>>)],
               [overview |-> Str(<<"the">>), genres |-> Malformed]}}

\* Rows of tmdb_5000_credits.csv, without their movie_id: no crew, or a
\* writer followed by a director.
RawCreditRows ==
    {[title |-> t, cast |-> NaN, crew |-> c] :
        t \in BuildTitles,
        c \in {NaN,
               List(<<[name |-> <<"love">>, job |-> "Writer"],
                      [name |-> <<"peace">>, job |-> "Director"]>>)}}

\* Raw tables of at most MaxRawRows rows each; the credits row at position j
\* carries movie_id 100 + j.
BuildInputs ==
    UNION {{[movies_df  |-> mv,
             credits_df |-> [j \in 1..Len(cr) |->
                               [movie_id |-> 100 + j, title |-> cr[j].title,
                                cast |-> cr[j].cast, crew |-> cr[j].crew]]] :
              mv \in [1..a -> RawMovieRows], cr \in [1..b -> RawCreditRows]} :
           a \in 1..MaxRawRows, b \in 1..MaxRawRows}

InitBuild ==
    /\ \E d \in BuildInputs : csv = Data(d)
    /\ disk = EmptyDisk
    /\ build = NoBuild
    /\ cache = NoCache
    /\ loads = 0
    /\ sess = [s \in Sessions |-> NewSession]
    /\ query = NoQuery
    /\ result = NoResult

NextBuild ==
    \/ \E got \in Downloads : StartBuild(got)
    \/ \E o \in DumpOutcomes : SaveSimilarity(o)
    \/ \E o \in DumpOutcomes : SaveMovies(o)
    \/ \E o \in DumpOutcomes : SaveDict(o)

SpecBuild == InitBuild /\ [][NextBuild]_vars

\* ------------------------------------------- extract_director on its own
\* The longest crew list handed to extract_director.
MaxCrew == 3

\* Crew records: two directors, a writer, a record without job, a director
\* without name.
CrewRecords ==
    {[name |-> <<"love">>, job |-> "Director"],
     [name |-> <<"peace">>, job |-> "Director"],
     [name |-> <<"war">>, job |-> "Writer"],
     [name |-> <<"war">>],
     [job |-> "Director"]}

\* The values of the crew column: a missing cell, text that is no Python
\* literal, and the lists of at most MaxCrew records.
CrewTexts ==
    {NaN, Malformed}
        \cup UNION {{List(c) : c \in [1..n -> CrewRecords]} : n \in 0..MaxCrew}

InitDirector ==
    /\ \E c \in CrewTexts : query = [crew_text |-> c]
    /\ result = [status |-> "none"]
    /\ csv = NoData
    /\ disk = EmptyDisk
    /\ build = NoBuild
    /\ cache = NoCache
    /\ loads = 0
    /\ sess = [s \in Sessions |-> NewSession]

\* movies['crew'].apply(extract_director) on one cell.
ExtractDirector ==
    /\ result.status = "none"
    /\ result' = [status |-> "returned",
                  director |-> extract_director(query.crew_text)]
    /\ UNCHANGED <<csv, disk, build, cache, loads, sess, query>>

NextDirector == ExtractDirector

SpecDirector == InitDirector /\ [][NextDirector]_vars

\* ----------------------------------------------- claims on the query engine
Titles(movies) == {movies[i].title : i \in 1..Len(movies)}

\* The call of recommend recorded in query/result returned a list.
Returned == result.status = "ok"

\* The score of corpus row j against the queried row.
Score(j) == cache.similarity[result.index][j]

\* C1: the list recommend returns never holds the queried movie itself, the
\* record at the row the title resolved to.
C1_QueryExcluded ==
    Returned => \A k \in 1..Len(result.rows) : result.rows[k] # result.index

C3_Ordered ==
    Returned =>
        \A k, l \in 1..Len(result.rows) :
            k < l => \/ Score(result.rows[k]) > Score(result.rows[l])
                     \/ /\ Score(result.rows[k]) = Score(result.rows[l])
                        /\ result.rows[k] < result.rows[l]

\* C3 witness: a result with a strict drop of the score and with a tie.
C3_Witness ==
    /\ Returned
    /\ \E k, l \in 1..Len(result.rows) :
          k < l /\ Score(result.rows[k]) > Score(result.rows[l])
    /\ \E k, l \in 1..Len(result.rows) :
          k < l /\ Score(result.rows[k]) = Score(result.rows[l])
                /\ Score(result.rows[k]) > 0

\* C4: a call with a title that matches no record ends in IndexError, returns
\* no list, and leaves the loaded corpus and similarity matrix as they were.
C4_NotFoundRaises ==
    [][query'.movie \notin Titles(cache.movies)
          => /\ result'.status = "IndexError"
             /\ result'.list = <<>>
             /\ cache' = cache]_vars

\* C4 witness: the call with the absent title has raised.
C4_Witness ==
    /\ query.movie = AbsentTitle
    /\ AbsentTitle \notin Titles(cache.movies)
    /\ result.status = "IndexError"

\* C5: for a title of the corpus recommend returns the same ranked titles and
\* movie_ids whatever the provider does on the poster lookups.
C5_ProviderIndependent ==
    (result.status # "none" /\ query.movie \in Titles(cache.movies))
        => /\ Returned
           /\ result.rows =
                 recommend(cache.movies, cache.similarity, "up", query.movie).rows

\* The rows of the loaded corpus whose title is exactly the queried string.
ExactRows == {i \in 1..Len(cache.movies) : cache.movies[i].title = query.movie}
LowestExact == CHOOSE i \in ExactRows : \A k \in ExactRows : i <= k

\* C11: the title is looked up by exact, case-sensitive equality (a string
\* no title equals raises IndexError), and of several records with the
\* queried title the one of the lowest index is the one resolved to, and
\* the results are ranked by that record's similarity row.
C11_LowestExactMatch ==
    result.status # "none" =>
        /\ (ExactRows = {}) <=> (result.status = "IndexError")
        /\ Returned =>
              /\ result.index = LowestExact
              /\ \A k, l \in 1..Len(result.rows) :
                    k < l => \/ cache.similarity[LowestExact][result.rows[k]]
                                  > cache.similarity[LowestExact][result.rows[l]]
                             \/ /\ cache.similarity[LowestExact][result.rows[k]]
                                     = cache.similarity[LowestExact][result.rows[l]]
                                /\ result.rows[k] < result.rows[l]

\* C11 witness: a returned list for a title two records share, whose
\* similarity rows differ.
C11_Witness ==
    /\ Returned
    /\ \E i, j \in ExactRows :
          i < j /\ cache.similarity[i] # cache.similarity[j]

\* ------------------------------------------------------ claims on the build
\* File f holds a complete pickle written by the current run.
Written(f) == disk[f].kind = "pickle" /\ disk[f].run = build.run

\* The current run has created or emptied file f.
Touched(f) == disk[f].kind # "absent" /\ disk[f].run = build.run

\* C6: when a run of generate_model has ended, normally or by a failure at
\* any step, either the similarity artifact and the movie table artifact of
\* that run are both on disk, or the run has written neither.
C6_AllOrNothing ==
    build.pc \in {"done", "failed"}
        => \/ Written("similarity.pkl") /\ Written("movies.pkl")
           \/ ~Touched("similarity.pkl") /\ ~Touched("movies.pkl")

\* The build has reached the dumps: its model is in memory.
Built == build.model.ok

Diagonal(i) == build.model.similarity[i][i]

\* Row i has at least one word that is no stop word.
HasTerms(i) == Tokenize(build.model.movies[i].soup) # <<>>

NearOne(x) == x - SimScale <= Tolerance /\ SimScale - x <= Tolerance

HasForm(f) == disk[f].kind # "absent" \/ disk[GzOf[f]].kind # "absent"

\* C7: a script run fails in load_data exactly when the movie table or the
\* similarity matrix is on disk in neither form.
C7_LoadsEitherForm ==
    \A s \in Sessions :
        sess[s].status # "new"
            => (sess[s].status = "load_error"
                   <=> ~(HasForm("movies.pkl") /\ HasForm("similarity.pkl")))

\* C8: once load_data has returned, no step loads from disk again or changes
\* the loaded model.
C8_LoadedOnce == [][cache.loaded => (cache' = cache /\ loads' = loads)]_vars

\* C8 witness: one load, both sessions have shown recommendations, and the
\* movie table on disk is no longer the loaded one.
C8_Witness ==
    /\ cache.loaded
    /\ loads = 1
    /\ \A s \in Sessions : sess[s].status = "ok" /\ sess[s].recommendations # <<>>
    /\ disk["movies.pkl"].kind = "pickle"
    /\ disk["movies.pkl"].obj # cache.movies

\* C10: a session whose script run got past load_data works on a corpus and
\* a similarity matrix of the same length (the matrix N x N for N movies).
C10_ServedModelMatches ==
    \A s \in Sessions :
        sess[s].status \in {"ok", "query_error"}
            => /\ cache.loaded
               /\ Len(cache.similarity) = Len(cache.movies)
               /\ \A i \in 1..Len(cache.similarity) :
                     Len(cache.similarity[i]) = Len(cache.movies)

\* The similarity matrix and the movie table on disk.
SavedSimilarity == disk["similarity.pkl"].obj
SavedMovies == disk["movies.pkl"].obj

\* C12: after a successful build the persisted similarity matrix is N x N,
\* N the number of rows of the persisted movie table, and it is the matrix
\* of the soups of that table taken in the table's row order.
C12_MatrixAlignsWithTable ==
    build.pc = "done" =>
        /\ Written("similarity.pkl") /\ Written("movies.pkl")
        /\ Len(SavedSimilarity) = Len(SavedMovies)
        /\ \A i \in 1..Len(SavedSimilarity) :
              Len(SavedSimilarity[i]) = Len(SavedMovies)
        /\ SavedSimilarity = CosineSimilarity(TfidfMatrix(Documents(SavedMovies)))

\* C12 witness: a finished build of several rows, two of them with
\* different similarity rows.
C12_Witness ==
    /\ build.pc = "done"
    /\ Written("similarity.pkl") /\ Written("movies.pkl")
    /\ \E i, j \in 1..Len(SavedMovies) :
          i < j /\ SavedSimilarity[i][i] # SavedSimilarity[j][j]

\* C13: the built corpus holds one record per film: no more rows than the
\* raw movie table has, no movie_id on two rows, and only titles that occur
\* in both raw tables.
C13_OneRecordPerFilm ==
    Built =>
        /\ Len(build.model.movies) <= Len(csv.movies_df)
        /\ \A i, j \in 1..Len(build.model.movies) :
              i # j => build.model.movies[i].movie_id # build.model.movies[j].movie_id
        /\ \A i \in 1..Len(build.model.movies) :
              /\ build.model.movies[i].title \in Titles(csv.movies_df)
              /\ build.model.movies[i].title \in Titles(csv.credits_df)

\* The crew list of the call, and the places of its records whose job is
\* "Director".
CrewOfCall == IF IsList(query.crew_text) THEN query.crew_text.val ELSE <<>>
DirectorsOfCall ==
    {k \in 1..Len(CrewOfCall) :
        "job" \in DOMAIN CrewOfCall[k] /\ CrewOfCall[k].job = "Director"}
FirstDirector == CHOOSE d \in DirectorsOfCall : \A t \in DirectorsOfCall : d <= t
\* Every record the scan reads a key of carries that key: job up to the
\* first Director, name on that Director.
KeysPresent ==
    /\ \A k \in 1..Len(CrewOfCall) :
          (DirectorsOfCall = {} \/ k <= FirstDirector) => "job" \in DOMAIN CrewOfCall[k]
    /\ DirectorsOfCall # {} => "name" \in DOMAIN CrewOfCall[FirstDirector]

\* C14 as stated: the call returns, with the name of the first record whose
\* job is "Director", and with the empty string only when the list holds no
\* such record or the text does not parse.
C14_FirstDirector ==
    result.status # "none" =>
        /\ result.status = "returned"
        /\ (DirectorsOfCall # {} /\ "name" \in DOMAIN CrewOfCall[FirstDirector])
              => result.director = CrewOfCall[FirstDirector].name
        /\ result.director = <<>>
              => (DirectorsOfCall = {} \/ ~IsList(query.crew_text))

\* C14 amended: the call returns; when every record the scan reads carries
\* the key read from it, with the name of the first Director or, without a
\* Director, the empty string; and with the empty string in every other
\* case (text that does not parse, a record without the key).
C14_FirstDirectorWhenKeysPresent ==
    result.status # "none" =>
        /\ result.status = "returned"
        /\ (KeysPresent /\ DirectorsOfCall # {})
              => result.director = CrewOfCall[FirstDirector].name
        /\ (~KeysPresent \/ DirectorsOfCall = {}) => result.director = <<>>

\* C14 witness: a writer, then two directors; the first one's name returned.
C14_Witness ==
    /\ result.status = "returned"
    /\ Cardinality(DirectorsOfCall) = 2
    /\ FirstDirector = 2
    /\ KeysPresent
    /\ result.director = CrewOfCall[2].name
    /\ result.director # CrewOfCall[3].name

\* C15: after any runs of download_and_decompress every model file that
\* exists is the complete decompressed pickle of a hosted archive, and no
\* compressed file is left in the directory.
C15_OnlyCompleteFiles ==
    \A f \in PklFiles :
        /\ disk[f].kind # "absent"
              => \E model \in HostedModels : disk[f] = Pickle(0, ObjectFor(f, model))
        /\ disk[GzOf[f]].kind = "absent"
====
